---- MODULE Spec2Model ----
(***************************************************************************)
(* A model of the Roomba simulation: the grid of cells (src/agents/cell.py), *)
(* the Roomba agent (src/agents/roomba.py) and the RoomModel driver          *)
(* (src/model/room.py).  One RoomModel.step is a sequence of Roomba.step     *)
(* activations, one per agent in an arbitrary order, followed by the tick    *)
(* counter's increment.                                                      *)
(***************************************************************************)
EXTENDS Integers, Sequences, FiniteSets, TLC

VARIABLES
    width,              \* RoomModel.width
    height,             \* RoomModel.height
    max_time,           \* RoomModel.max_time
    dirty_percent,      \* RoomModel.dirty_percent, in hundredths
    obstacle_percent,   \* RoomModel.obstacle_percent, in hundredths
    n_agents,           \* RoomModel.n_agents
    current_time,       \* RoomModel.current_time
    running,            \* RoomModel.running
    cells,              \* position -> Cell.state
    pos,                \* agent -> Roomba.pos
    battery,            \* agent -> Roomba.battery
    home_charger,       \* agent -> Roomba.home_charger
    movements,          \* agent -> Roomba.movements
    BATTERY_CRITICAL,   \* agent -> Roomba.BATTERY_CRITICAL
    dirty_cells_memory, \* agent -> Roomba.dirty_cells_memory
    visited_cells,      \* agent -> Roomba.visited_cells
    explored_cells,     \* agent -> Roomba.explored_cells
    knowledge_matrix,   \* agent -> Roomba.knowledge_matrix: its shape and its entries
    matrix_center,      \* agent -> Roomba.matrix_center
    pending,            \* agents the scheduler has yet to activate in this tick
    activations,        \* history: agent -> the number of its Roomba.step calls so far
    rand_span,          \* the run's random source: random.choice returns one of the
                        \* first rand_span elements of its argument (4: any of them)
    last                \* history: agent -> its latest Roomba.step (branch taken, state before),
                        \* whether a tick after a threshold raise had a false return decision
                        \* (gave_up), and the open return episode: the ticks since the return
                        \* decision became true with no charge yet (since), and the Manhattan
                        \* distance to the charger when it did (d0)

vars == <<width, height, max_time, dirty_percent, obstacle_percent, n_agents, current_time, running, cells, pos, battery,
          home_charger, movements, BATTERY_CRITICAL, dirty_cells_memory,
          visited_cells, explored_cells, knowledge_matrix, matrix_center, pending, activations, rand_span, last>>

(***************************************************************************)
(* Program constants (Roomba.__init__).                                      *)
(***************************************************************************)
BATTERY_FULL == 100
BATTERY_CRITICAL_INIT == 20
BATTERY_SAFE == 90
MOVE_COST == 1
CLEAN_COST == 2
CHARGE_RATE == 10
SAFETY_MARGIN == 15
THRESHOLD_RELAXATION == 5

\* CellKnowledge
UNKNOWN == 0
WALL == 1
OBSTACLE == 2
CHARGING_STATION == 3
EMPTY == 4
DIRTY == 5

(***************************************************************************)
(* Bounds of the model.                                                      *)
(***************************************************************************)
\* max_time of the long runs: enough ticks to drain a full battery and to stay
\* stuck for a while afterwards
MaxTime == 130
\* max_time of the short runs
ShortTime == 8
\* the most cells a constructed grid has dirty
MaxDirty == 2

None == <<>>

Roombas == DOMAIN pos

AllCells == (0 .. width - 1) \X (0 .. height - 1)

\* Roomba.is_valid_position
is_valid_position(p) == 0 <= p[1] /\ p[1] < width /\ 0 <= p[2] /\ p[2] < height

\* The four neighbour offsets, in the order every loop of roomba.py lists them.
Deltas == << <<0, 1>>, <<0, -1>>, <<1, 0>>, <<-1, 0>> >>

Abs(i) == IF i < 0 THEN -i ELSE i

\* heuristic of find_path_to_target, and every inline Manhattan distance
heuristic(p, q) == Abs(p[1] - q[1]) + Abs(p[2] - q[2])

\* Roomba.get_cell_at_pos: the state of the cell at p, None out of bounds
get_cell_at_pos(grid, p) == IF is_valid_position(p) THEN grid[p] ELSE "none"

\* has_obstacle with the test left out: no cell blocks
has_obstacle_never(grid, p) == FALSE

\* has_obstacle testing for the wrong cell state
has_obstacle_dirty(grid, p) == grid[p] = "dirty"

\* any(hasattr(content, "state") and content.state == "obstacle" ...) over the
\* contents of cell p, as move and get_possible_moves both test it
has_obstacle(grid, p) == grid[p] = "obstacle"

\* Roomba.get_possible_moves from position p: in bounds and not an obstacle
get_possible_moves(grid, p) ==
    LET cand == [i \in 1 .. 4 |-> <<p[1] + Deltas[i][1], p[2] + Deltas[i][2]>>]
        ok(q) == is_valid_position(q) /\ ~has_obstacle(grid, q)
    IN  SelectSeq(cand, ok)

\* is_valid_move of find_path_to_target
is_valid_move(grid, p) ==
    IF ~is_valid_position(p) THEN FALSE
    ELSE ~(get_cell_at_pos(grid, p) # "none" /\ get_cell_at_pos(grid, p) = "obstacle")

Range(s) == {s[i] : i \in 1 .. Len(s)}

(***************************************************************************)
(* Roomba.find_path_to_target.  The open set is a list of (f, pos) pairs; the *)
(* node expanded is the first pair of minimal f; the neighbours relaxed in    *)
(* every iteration are self.get_possible_moves(), the moves from the agent's  *)
(* own position (roomba.py line 215), whatever node is being expanded.        *)
(***************************************************************************)
\* min(open_set, key=lambda x: x[0])[1]: the first entry of minimal f
MinOpen(open) ==
    LET best == CHOOSE i \in 1 .. Len(open) :
                    /\ \A j \in 1 .. Len(open) : open[i][1] <= open[j][1]
                    /\ \A j \in 1 .. i - 1 : open[j][1] > open[i][1]
    IN  open[best][2]

RECURSIVE ReconstructPath(_, _)
\* the while loop of lines 206-208: current, came_from[current], ... reversed
ReconstructPath(came_from, current) ==
    IF current \in DOMAIN came_from
    THEN Append(ReconstructPath(came_from, came_from[current]), current)
    ELSE <<>>

RECURSIVE Relax(_, _, _, _, _, _, _, _)
\* the for loop of lines 215-225 over the moves, from index i on
Relax(grid, moves, i, current, target, open, came_from, g_score) ==
    IF i > Len(moves) THEN [open |-> open, came_from |-> came_from, g_score |-> g_score]
    ELSE LET next_pos == moves[i]
             tentative == g_score[current] + 1
         IN  IF ~is_valid_move(grid, next_pos)
             THEN Relax(grid, moves, i + 1, current, target, open, came_from, g_score)
             ELSE IF next_pos \notin DOMAIN g_score \/ tentative < g_score[next_pos]
             THEN Relax(grid, moves, i + 1, current, target,
                        Append(open, <<tentative + heuristic(next_pos, target), next_pos>>),
                        (next_pos :> current) @@ came_from,
                        (next_pos :> tentative) @@ g_score)
             ELSE Relax(grid, moves, i + 1, current, target, open, came_from, g_score)

RECURSIVE SearchLoop(_, _, _, _, _, _, _)
\* the while loop of lines 202-226
SearchLoop(grid, moves, start, target, open, came_from, g_score) ==
    IF open = <<>> THEN None
    ELSE LET current == MinOpen(open)
         IN  IF current = target
             THEN <<start>> \o ReconstructPath(came_from, current)
             ELSE LET notCurrent(e) == e[2] # current
                      r == Relax(grid, moves, 1, current, target,
                                 SelectSeq(open, notCurrent), came_from, g_score)
                  IN  SearchLoop(grid, moves, start, target, r.open, r.came_from, r.g_score)

find_path_to_target(grid, start, target) ==
    SearchLoop(grid, get_possible_moves(grid, start), start, target,
               << <<0, start>> >>, <<>>, (start :> 0))

(***************************************************************************)
(* One agent's view while its step runs: s.grid is the shared grid, s.ag the *)
(* agent's own fields.                                                       *)
(***************************************************************************)
Agent(a) ==
    [pos |-> pos[a], battery |-> battery[a], home_charger |-> home_charger[a],
     movements |-> movements[a], BATTERY_CRITICAL |-> BATTERY_CRITICAL[a],
     dirty_cells_memory |-> dirty_cells_memory[a],
     visited_cells |-> visited_cells[a], explored_cells |-> explored_cells[a],
     knowledge_matrix |-> knowledge_matrix[a], matrix_center |-> matrix_center[a]]

View(a) == [grid |-> cells, ag |-> Agent(a)]

\* the in-bounds cells among the four neighbours of p
Neighbours(p) ==
    {q \in {<<p[1] + Deltas[i][1], p[2] + Deltas[i][2]>> : i \in 1 .. 4} :
        is_valid_position(q)}

\* np.full(shape, UNKNOWN)
np_full(shape) ==
    [shape |-> shape,
     at |-> [i \in (0 .. shape[1] - 1) \X (0 .. shape[2] - 1) |-> UNKNOWN]]

\* Roomba.expand_knowledge_matrix on k = [m: the matrix, c: matrix_center]
expand_knowledge_matrix(k, direction) ==
    LET rows == k.m.shape[1]
        cols == k.m.shape[2]
        taller == (0 .. rows) \X (0 .. cols - 1)
        wider == (0 .. rows - 1) \X (0 .. cols)
    IN  CASE direction = "north" ->
                 [m |-> [shape |-> <<rows + 1, cols>>,
                         at |-> [i \in taller |->
                                    IF i[1] = 0 THEN UNKNOWN
                                    ELSE k.m.at[<<i[1] - 1, i[2]>>]]],
                  c |-> <<k.c[1] + 1, k.c[2]>>]
          [] direction = "south" ->
                 [m |-> [shape |-> <<rows + 1, cols>>,
                         at |-> [i \in taller |->
                                    IF i[1] = rows THEN UNKNOWN ELSE k.m.at[i]]],
                  c |-> k.c]
          [] direction = "west" ->
                 [m |-> [shape |-> <<rows, cols + 1>>,
                         at |-> [i \in wider |->
                                    IF i[2] = 0 THEN UNKNOWN
                                    ELSE k.m.at[<<i[1], i[2] - 1>>]]],
                  c |-> <<k.c[1], k.c[2] + 1>>]
          [] OTHER ->
                 [m |-> [shape |-> <<rows, cols + 1>>,
                         at |-> [i \in wider |->
                                    IF i[2] = cols THEN UNKNOWN ELSE k.m.at[i]]],
                  c |-> k.c]

\* the CellKnowledge value update_knowledge writes for the cell at world position p
Classification(grid, p) ==
    IF ~is_valid_position(p) THEN WALL
    ELSE IF grid[p] = "obstacle" THEN OBSTACLE
    ELSE IF grid[p] = "charging_station" THEN CHARGING_STATION
    ELSE IF grid[p] = "dirty" THEN DIRTY
    ELSE EMPTY

\* update_knowledge's work on the matrix (lines 120-131, 133-143, 146-170): the
\* indices matrix_x, matrix_y are read before the expansions and written at after
\* them; the result is [m, c].  Each stage is taken from a one-element set, which
\* hands its value, not its expression, to the next.
record_knowledge(s) ==
    LET matrix_x == s.ag.matrix_center[1]
        matrix_y == s.ag.matrix_center[2]
        north == {IF matrix_x <= 1 THEN expand_knowledge_matrix(k, "north") ELSE k :
                     k \in {[m |-> s.ag.knowledge_matrix, c |-> s.ag.matrix_center]}}
        south == {IF matrix_x >= k.m.shape[1] - 2
                  THEN expand_knowledge_matrix(k, "south") ELSE k : k \in north}
        west == {IF matrix_y <= 1 THEN expand_knowledge_matrix(k, "west") ELSE k :
                    k \in south}
        east == {IF matrix_y >= k.m.shape[2] - 2
                 THEN expand_knowledge_matrix(k, "east") ELSE k : k \in west}
        delta(i) == <<i[1] - matrix_x, i[2] - matrix_y>>
        world(i) == <<s.ag.pos[1] + delta(i)[1], s.ag.pos[2] + delta(i)[2]>>
        written == {<<matrix_x, matrix_y>>}
                       \cup {<<matrix_x + Deltas[n][1], matrix_y + Deltas[n][2]>> :
                                n \in 1 .. 4}
    IN  CHOOSE r \in {[m |-> [k.m EXCEPT !.at = [i \in DOMAIN k.m.at |->
                                                    IF i \in written
                                                    THEN Classification(s.grid, world(i))
                                                    ELSE k.m.at[i]]],
                       c |-> k.c] : k \in east} : TRUE

\* update_knowledge assigning the sensed neighbours to explored_cells instead of
\* adding them
update_knowledge_forgetful(s) ==
    LET p == s.ag.pos
        own == s.grid[p]
        mem1 == IF own = "dirty" THEN s.ag.dirty_cells_memory \cup {p}
                ELSE IF own = "clean" THEN s.ag.dirty_cells_memory \ {p}
                ELSE s.ag.dirty_cells_memory
        adj == Neighbours(p)
        k == record_knowledge(s)
    IN  [s EXCEPT !.ag.visited_cells = @ \cup {p},
                  !.ag.explored_cells = adj,
                  !.ag.dirty_cells_memory =
                      mem1 \cup {q \in adj : s.grid[q] = "dirty"},
                  !.ag.knowledge_matrix = k.m,
                  !.ag.matrix_center = k.c]

\* Roomba.update_knowledge
update_knowledge(s) ==
    LET p == s.ag.pos
        own == s.grid[p]
        mem1 == IF own = "dirty" THEN s.ag.dirty_cells_memory \cup {p}
                ELSE IF own = "clean" THEN s.ag.dirty_cells_memory \ {p}
                ELSE s.ag.dirty_cells_memory
        adj == Neighbours(p)
        k == record_knowledge(s)
    IN  [s EXCEPT !.ag.visited_cells = @ \cup {p},
                  !.ag.explored_cells = @ \cup adj,
                  !.ag.dirty_cells_memory =
                      mem1 \cup {q \in adj : s.grid[q] = "dirty"},
                  !.ag.knowledge_matrix = k.m,
                  !.ag.matrix_center = k.c]

\* move charging the cleaning cost instead of the move cost
move_wrong_cost(s, new_pos) ==
    IF s.ag.battery < MOVE_COST THEN [ok |-> FALSE, s |-> s]
    ELSE IF ~is_valid_position(new_pos) THEN [ok |-> FALSE, s |-> s]
    ELSE IF has_obstacle(s.grid, new_pos) THEN [ok |-> FALSE, s |-> s]
    ELSE [ok |-> TRUE,
          s |-> update_knowledge([s EXCEPT !.ag.pos = new_pos,
                                           !.ag.battery = @ - CLEAN_COST,
                                           !.ag.movements = @ + 1])]

\* move refusing a cell another agent stands on
move_exclusive(s, new_pos) ==
    IF s.ag.battery < MOVE_COST THEN [ok |-> FALSE, s |-> s]
    ELSE IF ~is_valid_position(new_pos) THEN [ok |-> FALSE, s |-> s]
    ELSE IF has_obstacle(s.grid, new_pos) THEN [ok |-> FALSE, s |-> s]
    ELSE IF \E b \in Roombas : pos[b] = new_pos THEN [ok |-> FALSE, s |-> s]
    ELSE [ok |-> TRUE,
          s |-> update_knowledge([s EXCEPT !.ag.pos = new_pos,
                                           !.ag.battery = @ - MOVE_COST,
                                           !.ag.movements = @ + 1])]

\* move without the sensing pass at the new position
move_no_sense(s, new_pos) ==
    IF s.ag.battery < MOVE_COST THEN [ok |-> FALSE, s |-> s]
    ELSE IF ~is_valid_position(new_pos) THEN [ok |-> FALSE, s |-> s]
    ELSE IF has_obstacle(s.grid, new_pos) THEN [ok |-> FALSE, s |-> s]
    ELSE [ok |-> TRUE,
          s |-> [s EXCEPT !.ag.pos = new_pos,
                          !.ag.battery = @ - MOVE_COST,
                          !.ag.movements = @ + 1]]

\* Roomba.move: [ok, s]
move(s, new_pos) ==
    IF s.ag.battery < MOVE_COST THEN [ok |-> FALSE, s |-> s]
    ELSE IF ~is_valid_position(new_pos) THEN [ok |-> FALSE, s |-> s]
    ELSE IF has_obstacle(s.grid, new_pos) THEN [ok |-> FALSE, s |-> s]
    ELSE [ok |-> TRUE,
          s |-> update_knowledge([s EXCEPT !.ag.pos = new_pos,
                                           !.ag.battery = @ - MOVE_COST,
                                           !.ag.movements = @ + 1])]

\* clean_current_cell paying for the attempt before it looks at the cell
clean_pays_first(s) ==
    IF s.ag.battery <= 0 THEN [ok |-> FALSE, s |-> s]
    ELSE IF s.grid[s.ag.pos] = "dirty"
    THEN [ok |-> TRUE,
          s |-> [s EXCEPT !.grid[s.ag.pos] = "clean",
                          !.ag.battery = @ - 1,
                          !.ag.dirty_cells_memory = @ \ {s.ag.pos}]]
    ELSE [ok |-> FALSE, s |-> [s EXCEPT !.ag.battery = @ - 1]]

\* clean_current_cell leaving the cleaned cell in dirty_cells_memory
clean_keeps_memory(s) ==
    IF s.ag.battery <= 0 THEN [ok |-> FALSE, s |-> s]
    ELSE IF s.grid[s.ag.pos] = "dirty"
    THEN [ok |-> TRUE,
          s |-> [s EXCEPT !.grid[s.ag.pos] = "clean",
                          !.ag.battery = @ - 1]]
    ELSE [ok |-> FALSE, s |-> s]

\* clean_current_cell without the test that the cell is dirty
clean_any_cell(s) ==
    IF s.ag.battery <= 0 THEN [ok |-> FALSE, s |-> s]
    ELSE IF s.grid[s.ag.pos] # "clean"
    THEN [ok |-> TRUE,
          s |-> [s EXCEPT !.grid[s.ag.pos] = "clean",
                          !.ag.battery = @ - 1,
                          !.ag.dirty_cells_memory = @ \ {s.ag.pos}]]
    ELSE [ok |-> FALSE, s |-> s]

\* Roomba.clean_current_cell: [ok, s]
clean_current_cell(s) ==
    IF s.ag.battery <= 0 THEN [ok |-> FALSE, s |-> s]
    ELSE IF s.grid[s.ag.pos] = "dirty"
    THEN [ok |-> TRUE,
          s |-> [s EXCEPT !.grid[s.ag.pos] = "clean",
                          !.ag.battery = @ - 1,
                          !.ag.dirty_cells_memory = @ \ {s.ag.pos}]]
    ELSE [ok |-> FALSE, s |-> s]

Min(i, j) == IF i <= j THEN i ELSE j

\* charge_battery filling the battery in one tick
charge_battery_full(s) ==
    IF s.grid[s.ag.pos] = "charging_station"
    THEN [ok |-> TRUE, s |-> [s EXCEPT !.ag.battery = BATTERY_FULL]]
    ELSE [ok |-> FALSE, s |-> s]

\* Roomba.charge_battery: [ok, s]
charge_battery(s) ==
    IF s.grid[s.ag.pos] = "charging_station"
    THEN [ok |-> TRUE,
          s |-> [s EXCEPT !.ag.battery = Min(BATTERY_FULL, @ + CHARGE_RATE)]]
    ELSE [ok |-> FALSE, s |-> s]

\* should_return_to_charger with its last comparison turned round
should_return_flipped(s) ==
    IF s.ag.battery <= s.ag.BATTERY_CRITICAL THEN TRUE
    ELSE LET manhattan_distance == heuristic(s.ag.pos, s.ag.home_charger)
             path == find_path_to_target(s.grid, s.ag.pos, s.ag.home_charger)
             path_cost == IF path # None THEN Len(path) * MOVE_COST
                          ELSE manhattan_distance * MOVE_COST
             return_cost == path_cost + SAFETY_MARGIN
         IN  s.ag.battery >= return_cost + s.ag.BATTERY_CRITICAL

\* Roomba.should_return_to_charger
should_return_to_charger(s) ==
    IF s.ag.battery <= s.ag.BATTERY_CRITICAL THEN TRUE
    ELSE LET manhattan_distance == heuristic(s.ag.pos, s.ag.home_charger)
             path == find_path_to_target(s.grid, s.ag.pos, s.ag.home_charger)
             path_cost == IF path # None THEN Len(path) * MOVE_COST
                          ELSE manhattan_distance * MOVE_COST
             return_cost == path_cost + SAFETY_MARGIN
         IN  s.ag.battery <= return_cost + s.ag.BATTERY_CRITICAL

\* Roomba.get_unexplored_frontier
get_unexplored_frontier(s) ==
    {q \in UNION {Neighbours(e) : e \in s.ag.explored_cells} :
        q \notin s.ag.explored_cells}

\* the elements min(S, key=distance to p) may return: any of the nearest
Nearest(S, p) == {q \in S : \A r \in S : heuristic(q, p) <= heuristic(r, p)}

\* the order of a sort(reverse=True)
TupleGreater(d1, p1, d2, p2) ==
    \/ d1 > d2
    \/ d1 = d2 /\ p1[1] > p2[1]
    \/ d1 = d2 /\ p1[1] = p2[1] /\ p1[2] > p2[2]

\* the order of list.sort() on (distance, (x, y)) tuples
TupleLess(d1, p1, d2, p2) ==
    \/ d1 < d2
    \/ d1 = d2 /\ p1[1] < p2[1]
    \/ d1 = d2 /\ p1[1] = p2[1] /\ p1[2] < p2[2]

RECURSIVE SortByDistance(_, _)
\* moves_with_distances.sort() of lines 321-325, as the sorted positions
SortByDistance(S, home) ==
    IF S = {} THEN <<>>
    ELSE LET m == CHOOSE q \in S : \A r \in S \ {q} :
                      TupleLess(heuristic(q, home), q, heuristic(r, home), r)
         IN  <<m>> \o SortByDistance(S \ {m}, home)

\* an outcome of Roomba.step: the view it ends in, the branch it took and the
\* cell it called move with (None when it called no move)
Out(s, branch, target) == [s |-> s, branch |-> branch, target |-> target]

\* lines 364-367: the random move, idle when no move is possible
RandomBranch(s) ==
    LET possible_moves == get_possible_moves(s.grid, s.ag.pos)
    IN  IF possible_moves # <<>>
        THEN {Out(move(s, possible_moves[i]).s, "random", possible_moves[i]) :
                 i \in 1 .. Min(rand_span, Len(possible_moves))}
        ELSE {Out(s, "idle", None)}

\* lines 352-362: one step toward the nearest frontier cell
ExploreBranch(s) ==
    LET frontier == get_unexplored_frontier(s)
        go(t) == LET path == find_path_to_target(s.grid, s.ag.pos, t)
                 IN  IF path # None /\ Len(path) > 1
                     THEN {Out(move(s, path[2]).s, "explore", path[2])}
                     ELSE RandomBranch(s)
    IN  IF frontier # {}
        THEN UNION {go(t) : t \in Nearest(frontier, s.ag.pos)}
        ELSE RandomBranch(s)

\* lines 341-350: one step toward the nearest remembered dirty cell
DirtBranch(s) ==
    LET go(t) == LET path == find_path_to_target(s.grid, s.ag.pos, t)
                 IN  IF path # None /\ Len(path) > 1
                     THEN {Out(move(s, path[2]).s, "dirt", path[2])}
                     ELSE ExploreBranch(s)
    IN  IF s.ag.dirty_cells_memory # {}
        THEN UNION {go(t) : t \in Nearest(s.ag.dirty_cells_memory, s.ag.pos)}
        ELSE ExploreBranch(s)

\* CleanBranch without the return after a successful clean
CleanBranch_no_return(s) ==
    LET c == clean_current_cell(s)
    IN  DirtBranch(c.s)

\* lines 337-339
CleanBranch(s) ==
    LET c == clean_current_cell(s)
    IN  IF c.ok THEN {Out(c.s, "clean", None)} ELSE DirtBranch(c.s)

\* EmergencyBranch relaxing the threshold after a successful move as well
EmergencyBranch_always_relax(s) ==
    LET possible_moves == get_possible_moves(s.grid, s.ag.pos)
        sorted == SortByDistance(Range(possible_moves), s.ag.home_charger)
        succeeds(m) == s.ag.battery >= MOVE_COST /\ move(s, m).ok
        done == SelectSeq(sorted, succeeds)
        relax(r) == [r EXCEPT !.ag.BATTERY_CRITICAL = @ + THRESHOLD_RELAXATION]
    IN  IF possible_moves # <<>>
        THEN IF done # <<>>
             THEN {Out(relax(move(s, done[1]).s), "return_emergency", done[1])}
             ELSE {Out(relax(s), "stuck", None)}
        ELSE CleanBranch(s)

\* lines 317-335: the emergency moves, nearest the charger first
EmergencyBranch(s) ==
    LET possible_moves == get_possible_moves(s.grid, s.ag.pos)
        sorted == SortByDistance(Range(possible_moves), s.ag.home_charger)
        succeeds(m) == s.ag.battery >= MOVE_COST /\ move(s, m).ok
        done == SelectSeq(sorted, succeeds)
    IN  IF possible_moves # <<>>
        THEN IF done # <<>>
             THEN {Out(move(s, done[1]).s, "return_emergency", done[1])}
             ELSE {Out([s EXCEPT !.ag.BATTERY_CRITICAL = @ + THRESHOLD_RELAXATION], "stuck", None)}
        ELSE CleanBranch(s)

\* lines 306-335
ReturnBranch(s) ==
    LET path == find_path_to_target(s.grid, s.ag.pos, s.ag.home_charger)
    IN  IF /\ path # None
           /\ Len(path) > 1
           /\ s.ag.battery >= MOVE_COST
           /\ path[2] \in Range(get_possible_moves(s.grid, s.ag.pos))
        THEN {Out(move(s, path[2]).s, "return_path", path[2])}
        ELSE EmergencyBranch(s)

\* decide charging on any charging station, not only on the agent's own
decide_any_station(s) ==
    IF s.grid[s.ag.pos] = "charging_station" /\ s.ag.battery < BATTERY_SAFE
    THEN {Out(charge_battery(s).s, "charge", None)}
    ELSE IF should_return_to_charger(s) THEN ReturnBranch(s)
    ELSE CleanBranch(s)

\* Roomba.step after its sensing pass
decide(s) ==
    IF s.ag.pos = s.ag.home_charger /\ s.ag.battery < BATTERY_SAFE
    THEN {Out(charge_battery(s).s, "charge", None)}
    ELSE IF should_return_to_charger(s) THEN ReturnBranch(s)
    ELSE CleanBranch(s)

\* Roomba.step: the views it can end in, each with the branch that was taken
step(s0) == UNION {decide(s) : s \in {update_knowledge(s0)}}

(***************************************************************************)
(* RoomModel.__init__: the state after init_grid and init_roombas, for a     *)
(* grid of w x h cells with the dirty cells D, the obstacles O and the        *)
(* chargers ch (agent i starts on ch[i]).                                     *)
(***************************************************************************)
NoStep == [branch |-> "none", from |-> None, battery |-> BATTERY_FULL,
           ret |-> FALSE, target |-> None, gave_up |-> FALSE, since |-> 0, d0 |-> 0]

Construct(w, h, mt, D, O, ch, span) ==
    LET ags == 1 .. Len(ch)
    IN  /\ width = w
        /\ height = h
        /\ max_time = mt
        /\ rand_span = span
        /\ current_time = 0
        /\ running = TRUE
        /\ cells = [p \in (0 .. w - 1) \X (0 .. h - 1) |->
                        IF p \in Range(ch) THEN "charging_station"
                        ELSE IF p \in O THEN "obstacle"
                        ELSE IF p \in D THEN "dirty"
                        ELSE "clean"]
        /\ pos = [a \in ags |-> ch[a]]
        /\ battery = [a \in ags |-> BATTERY_FULL]
        /\ home_charger = [a \in ags |-> ch[a]]
        /\ movements = [a \in ags |-> 0]
        /\ BATTERY_CRITICAL = [a \in ags |-> BATTERY_CRITICAL_INIT]
        /\ dirty_cells_memory = [a \in ags |-> {}]
        /\ visited_cells = [a \in ags |-> {}]
        /\ explored_cells = [a \in ags |-> {}]
        /\ knowledge_matrix = [a \in ags |-> np_full(<<3, 3>>)]
        /\ matrix_center = [a \in ags |-> <<1, 1>>]
        /\ pending = ags
        /\ activations = [a \in ags |-> 0]
        /\ last = [a \in ags |-> NoStep]

\* init_grid's counts for a grid of w x h cells, n agents and the percentages dp
\* and op: the cells it samples from (all but the single agent's charger), the
\* number it makes dirty and the number it makes obstacles
total_cells(w, h, n) == IF n = 1 THEN w * h - 1 ELSE w * h
dirty_cells(w, h, n, dp) ==
    Min((total_cells(w, h, n) * dp) \div 100, total_cells(w, h, n))
obstacle_cells(w, h, n, dp, op) ==
    Min((total_cells(w, h, n) * op) \div 100,
        total_cells(w, h, n) - dirty_cells(w, h, n, dp))

\* a constructor call and what its random samples gave: the dirty cells D, the
\* obstacles O and the chargers ch; n, dp and op are the least values giving them
Scenario(w, h, mt, D, O, ch, span) ==
    LET n == Len(ch)
        dp == CHOOSE p \in 0 .. 100 :
                  /\ dirty_cells(w, h, n, p) = Cardinality(D)
                  /\ \A q \in 0 .. p - 1 : dirty_cells(w, h, n, q) # Cardinality(D)
        op == CHOOSE p \in 0 .. 100 :
                  /\ obstacle_cells(w, h, n, dp, p) = Cardinality(O)
                  /\ \A q \in 0 .. p - 1 :
                         obstacle_cells(w, h, n, dp, q) # Cardinality(O)
    IN  [w |-> w, h |-> h, mt |-> mt, D |-> D, O |-> O, ch |-> ch, span |-> span,
         n |-> n, dp |-> dp, op |-> op]

\* the samples of c are samples init_grid and init_roombas can draw for c's call
Producible(c) ==
    LET all == (0 .. c.w - 1) \X (0 .. c.h - 1)
        free == all \ c.O
    IN  /\ c.D \subseteq all /\ c.O \subseteq all /\ c.D \cap c.O = {}
        /\ Cardinality(c.D) = dirty_cells(c.w, c.h, c.n, c.dp)
        /\ Cardinality(c.O) = obstacle_cells(c.w, c.h, c.n, c.dp, c.op)
        /\ Range(c.ch) \subseteq free
        /\ IF c.n = 1
           THEN c.ch = << <<1, 1>> >> /\ <<1, 1>> \notin c.D
           ELSE /\ Len(c.ch) = Min(c.n, Cardinality(free))
                /\ \A i, j \in 1 .. Len(c.ch) : i # j => c.ch[i] # c.ch[j]

\* RoomModel.__init__ called as c says
RoomModel(c) ==
    /\ Producible(c)
    /\ Construct(c.w, c.h, c.mt, c.D, c.O, c.ch, c.span)
    /\ n_agents = c.n
    /\ dirty_percent = c.dp
    /\ obstacle_percent = c.op

\* A 4 x 3 room whose free cells form a corridor from the charger (1,1) round to
\* (3,1) and (3,0); the corner (0,0) is free but walled in.  With CorridorGap an
\* obstacle the corridor ends in (3,0), without it in (2,0).
CorridorWalls == {<<0, 1>>, <<1, 0>>, <<0, 2>>, <<2, 1>>}
CorridorGap == <<2, 0>>
DirtSites == {<<1, 2>>, <<3, 2>>, <<3, 1>>}

\* n_agents = 1: the charger is (1,1); dirt and obstacles are init_grid's samples
SingleScenarios ==
    {Scenario(4, 3, MaxTime, D, O, << <<1, 1>> >>, 4) :
        D \in {D \in SUBSET DirtSites : Cardinality(D) <= MaxDirty},
        O \in {CorridorWalls, CorridorWalls \cup {CorridorGap}}}
    \cup {Scenario(3, 2, MaxTime, D, {}, << <<1, 1>> >>, 4) :
              D \in {{}, {<<0, 1>>, <<2, 1>>}}}

\* n_agents = 2: the chargers are init_roombas' random picks
DuoScenarios ==
    {Scenario(3, 2, ShortTime, {<<0, 0>>, <<1, 1>>}, {}, << <<1, 0>>, <<2, 1>> >>, 4),
     Scenario(3, 1, MaxTime, {}, {}, << <<0, 0>>, <<2, 0>> >>, 4)}

\* the 5 x 5 obstacle-free room with one dirty cell; the random source of these
\* runs draws among the first two possible moves
OpenTicks == 2 * (4 + 4) + 2
OpenScenarios ==
    {Scenario(5, 5, OpenTicks, {d}, {}, << <<1, 1>> >>, 2) :
        d \in {<<4, 4>>, <<1, 2>>, <<0, 0>>}}

\* calls at the edge of the configuration: percentages that sum to more than 1
\* (3 x 2, one agent, 0.6 dirty and 0.6 obstacles), more agents asked for than
\* the grid has free cells (2 x 1, three agents), and a charger that init_roombas
\* picked on a cell init_grid had made dirty (3 x 1, two agents)
EdgeScenarios ==
    {[Scenario(3, 2, ShortTime, {<<1, 0>>, <<2, 0>>, <<2, 1>>}, {<<0, 0>>, <<0, 1>>},
               << <<1, 1>> >>, 4) EXCEPT !.dp = 60, !.op = 60],
     [Scenario(2, 1, ShortTime, {}, {}, << <<0, 0>>, <<1, 0>> >>, 4) EXCEPT !.n = 3],
     Scenario(3, 1, ShortTime, {<<0, 0>>}, {}, << <<0, 0>>, <<2, 0>> >>, 4)}

Scenarios == SingleScenarios \cup DuoScenarios \cup EdgeScenarios

Init ==
    \E c \in Scenarios : RoomModel(c)

InitOpen ==
    \E c \in OpenScenarios : RoomModel(c)

(***************************************************************************)
(* One activation of RoomModel.step's schedule: agent a runs Roomba.step.    *)
(* The activation of the tick's last agent ends the tick (lines 198-203).    *)
(***************************************************************************)
\* RoombaStep stopping the run one tick late: > for >= in RoomModel.step
RoombaStep_late_stop(a) ==
    /\ running
    /\ current_time < max_time
    /\ a \in pending
    /\ \E o \in step(View(a)) :
        /\ cells' = o.s.grid
        /\ pos' = [pos EXCEPT ![a] = o.s.ag.pos]
        /\ battery' = [battery EXCEPT ![a] = o.s.ag.battery]
        /\ movements' = [movements EXCEPT ![a] = o.s.ag.movements]
        /\ BATTERY_CRITICAL' = [BATTERY_CRITICAL EXCEPT ![a] = o.s.ag.BATTERY_CRITICAL]
        /\ dirty_cells_memory' =
               [dirty_cells_memory EXCEPT ![a] = o.s.ag.dirty_cells_memory]
        /\ visited_cells' = [visited_cells EXCEPT ![a] = o.s.ag.visited_cells]
        /\ explored_cells' = [explored_cells EXCEPT ![a] = o.s.ag.explored_cells]
        /\ knowledge_matrix' = [knowledge_matrix EXCEPT ![a] = o.s.ag.knowledge_matrix]
        /\ matrix_center' = [matrix_center EXCEPT ![a] = o.s.ag.matrix_center]
        /\ last' = [last EXCEPT ![a] =
                        [branch |-> o.branch, from |-> pos[a], battery |-> battery[a],
                         ret |-> should_return_to_charger(View(a)),
                         target |-> o.target,
                         gave_up |-> \/ last[a].gave_up
                                     \/ /\ BATTERY_CRITICAL[a] > BATTERY_CRITICAL_INIT
                                        /\ ~should_return_to_charger(View(a)),
                         since |-> IF last[a].since > 0 /\ last[a].branch # "charge"
                                   THEN last[a].since + 1
                                   ELSE IF should_return_to_charger(View(a)) THEN 1 ELSE 0,
                         d0 |-> IF last[a].since > 0 /\ last[a].branch # "charge"
                                THEN last[a].d0
                                ELSE IF should_return_to_charger(View(a))
                                     THEN heuristic(pos[a], home_charger[a]) ELSE 0]]
    /\ activations' = [activations EXCEPT ![a] = @ + 1]
    /\ IF pending = {a}
       THEN /\ pending' = Roombas
            /\ current_time' = current_time + 1
            /\ running' = IF current_time + 1 > max_time THEN FALSE ELSE running
       ELSE /\ pending' = pending \ {a}
            /\ UNCHANGED <<current_time, running>>
    /\ UNCHANGED <<width, height, max_time, dirty_percent, obstacle_percent, n_agents,
                   home_charger, rand_span>>

RoombaStep(a) ==
    /\ running
    /\ current_time < max_time
    /\ a \in pending
    /\ \E o \in step(View(a)) :
        /\ cells' = o.s.grid
        /\ pos' = [pos EXCEPT ![a] = o.s.ag.pos]
        /\ battery' = [battery EXCEPT ![a] = o.s.ag.battery]
        /\ movements' = [movements EXCEPT ![a] = o.s.ag.movements]
        /\ BATTERY_CRITICAL' = [BATTERY_CRITICAL EXCEPT ![a] = o.s.ag.BATTERY_CRITICAL]
        /\ dirty_cells_memory' =
               [dirty_cells_memory EXCEPT ![a] = o.s.ag.dirty_cells_memory]
        /\ visited_cells' = [visited_cells EXCEPT ![a] = o.s.ag.visited_cells]
        /\ explored_cells' = [explored_cells EXCEPT ![a] = o.s.ag.explored_cells]
        /\ knowledge_matrix' = [knowledge_matrix EXCEPT ![a] = o.s.ag.knowledge_matrix]
        /\ matrix_center' = [matrix_center EXCEPT ![a] = o.s.ag.matrix_center]
        /\ last' = [last EXCEPT ![a] =
                        [branch |-> o.branch, from |-> pos[a], battery |-> battery[a],
                         ret |-> should_return_to_charger(View(a)),
                         target |-> o.target,
                         gave_up |-> \/ last[a].gave_up
                                     \/ /\ BATTERY_CRITICAL[a] > BATTERY_CRITICAL_INIT
                                        /\ ~should_return_to_charger(View(a)),
                         since |-> IF last[a].since > 0 /\ last[a].branch # "charge"
                                   THEN last[a].since + 1
                                   ELSE IF should_return_to_charger(View(a)) THEN 1 ELSE 0,
                         d0 |-> IF last[a].since > 0 /\ last[a].branch # "charge"
                                THEN last[a].d0
                                ELSE IF should_return_to_charger(View(a))
                                     THEN heuristic(pos[a], home_charger[a]) ELSE 0]]
    /\ activations' = [activations EXCEPT ![a] = @ + 1]
    /\ IF pending = {a}
       THEN /\ pending' = Roombas
            /\ current_time' = current_time + 1
            /\ running' = IF current_time + 1 >= max_time THEN FALSE ELSE running
       ELSE /\ pending' = pending \ {a}
            /\ UNCHANGED <<current_time, running>>
    /\ UNCHANGED <<width, height, max_time, dirty_percent, obstacle_percent, n_agents,
                   home_charger, rand_span>>

Next == \E a \in Roombas : RoombaStep(a)

Spec == Init /\ [][Next]_vars

\* the runs on the 5 x 5 obstacle-free room
SpecOpen == InitOpen /\ [][Next]_vars

(***************************************************************************)
(* Properties.                                                               *)
(***************************************************************************)
MoveBranches == {"return_path", "return_emergency", "dirt", "explore", "random"}

\* the cells a sensing pass at p reads: p and its in-bounds neighbours
Sensed(p) == {p} \cup Neighbours(p)

\* agent a is about to be activated: its step, and so a sensing pass, can start here
Activable(a) == running /\ current_time < max_time /\ a \in pending

ObstacleFree == \A p \in AllCells : cells[p] # "obstacle"

RECURSIVE Bfs(_, _, _, _, _)
Bfs(grid, frontier, seen, q, d) ==
    IF q \in frontier THEN d
    ELSE LET nxt == {n \in UNION {Neighbours(x) : x \in frontier} :
                        grid[n] # "obstacle" /\ n \notin seen}
         IN  IF nxt = {} THEN -1 ELSE Bfs(grid, nxt, seen \cup nxt, q, d + 1)

\* the number of moves of a shortest obstacle-avoiding walk from p to q, -1 if none
ShortestDist(grid, p, q) == Bfs(grid, {p}, {p}, q, 0)

\* C1: in every reachable state every Roomba's battery is within 0 .. 100.
C1_BatteryBound ==
    \A a \in Roombas : 0 <= battery[a] /\ battery[a] <= BATTERY_FULL

\* an agent spent its last unit of battery on a move
C1_Witness ==
    \E a \in Roombas :
        battery[a] = 0 /\ last[a].battery = MOVE_COST /\ last[a].branch \in MoveBranches

\* C2: in every reachable state every Roomba stands inside the grid on a cell that
\* is not an obstacle.
C2_LegalOccupancy ==
    \A a \in Roombas : is_valid_position(pos[a]) /\ cells[pos[a]] # "obstacle"

\* an agent next to an obstacle and next to the wall has made a random move
C2_Witness ==
    \E a \in Roombas :
        /\ last[a].branch = "random"
        /\ pos[a] # last[a].from
        /\ \E q \in Neighbours(last[a].from) : cells[q] = "obstacle"
        /\ Cardinality(Neighbours(last[a].from)) < 4

\* C3: on an obstacle-free grid find_path_to_target returns, for every agent
\* position A and every in-bounds target B, a path from A to B whose length
\* minus 1 is the Manhattan distance between A and B.
C3_PathOptimal ==
    ObstacleFree =>
        \A a \in Roombas : \A B \in AllCells :
            LET path == find_path_to_target(cells, pos[a], B)
            IN  /\ path # None
                /\ path[1] = pos[a]
                /\ path[Len(path)] = B
                /\ Len(path) - 1 = heuristic(pos[a], B)

\* C4: an agent that starts a tick off its home charger with the return decision
\* true takes the return branch in that tick: it moves toward the charger (one
\* step nearer along the obstacle-avoiding way home) and neither cleans nor
\* explores.
C4_ForcedReturn ==
    \A a \in Roombas :
        (last[a].branch # "none" /\ last[a].from # home_charger[a] /\ last[a].ret) =>
            /\ last[a].branch \in {"return_path", "return_emergency"}
            /\ pos[a] \in Neighbours(last[a].from)
            /\ ShortestDist(cells, pos[a], home_charger[a])
                   < ShortestDist(cells, last[a].from, home_charger[a])

\* the number of cells in state clean, which Clean_Percentage divides by the
\* number of cells
CleanCells == Cardinality({p \in AllCells : cells[p] = "clean"})

\* C5: on the 5 x 5 obstacle-free grid with one dirty cell and one agent starting on
\* its charger with a full battery, the clean percentage is 100 after at most
\* 2 * (grid diagonal) + 2 ticks, the diagonal being the 4 + 4 moves between
\* opposite corners.
C5_GuaranteedClean ==
    (/\ width = 5
     /\ height = 5
     /\ Cardinality(Roombas) = 1
     /\ ObstacleFree
     /\ current_time >= OpenTicks) => CleanCells * 100 = 100 * (width * height)

\* C6: after a sensing pass every remembered position the pass has read (the
\* agent's cell and its in-bounds neighbours) is dirty: a remembered position
\* sensed to be no longer dirty is removed in that pass.
C6_MemorySynchronized ==
    \A a \in Roombas :
        Activable(a) =>
            LET s == update_knowledge(View(a))
            IN  \A p \in s.ag.dirty_cells_memory \cap Sensed(pos[a]) :
                    cells[p] = "dirty"

\* C7: after a successful clean_current_cell the cleaned position is not in
\* dirty_cells_memory; after a sensing pass every dirty cell among the agent's own
\* cell and its in-bounds neighbours is in dirty_cells_memory.  (Every step
\* starts with a sensing pass, every move ends with one, and no cell becomes
\* dirty: a cell that is dirty now was dirty when the agent last sensed.)
C7_DirtyMemoryCoherence ==
    \A a \in Roombas :
        /\ last[a].branch = "clean" =>
               pos[a] \notin dirty_cells_memory[a] /\ cells[pos[a]] = "clean"
        /\ last[a].branch # "none" =>
               \A p \in Sensed(pos[a]) :
                   cells[p] = "dirty" => p \in dirty_cells_memory[a]
        /\ Activable(a) =>
               LET s == update_knowledge(View(a))
               IN  \A p \in Sensed(pos[a]) :
                       cells[p] = "dirty" => p \in s.ag.dirty_cells_memory

\* an agent has just cleaned its cell while a neighbour it sensed is still dirty
C7_Witness ==
    \E a \in Roombas :
        /\ last[a].branch = "clean"
        /\ \E p \in Neighbours(pos[a]) : cells[p] = "dirty" /\ p \in dirty_cells_memory[a]

\* C8: explored_cells and visited_cells of every agent only grow from one state to
\* the next.
C8_KnowledgeMonotone ==
    [][\A a \in Roombas :
           /\ explored_cells[a] \subseteq explored_cells'[a]
           /\ visited_cells[a] \subseteq visited_cells'[a]]_vars

\* an agent has sensed from three cells and knows more than one pass can tell
C8_Witness ==
    \E a \in Roombas :
        Cardinality(visited_cells[a]) >= 3 /\ Cardinality(explored_cells[a]) >= 6

\* p is not the agent's cell and all its in-bounds neighbours are obstacles
Enclosed(p) == \A q \in Neighbours(p) : cells[q] = "obstacle"

\* C9: find_path_to_target returns None for a target other than the agent's cell
\* all of whose in-bounds neighbours are obstacles.
C9_UnreachableDetected ==
    \A a \in Roombas : \A t \in AllCells :
        (t # pos[a] /\ Enclosed(t)) => find_path_to_target(cells, pos[a], t) = None

\* an agent that has moved is two moves (as the crow flies) from a free, walled-in cell
C9_Witness ==
    \E a \in Roombas : \E t \in AllCells :
        /\ Enclosed(t)
        /\ cells[t] = "clean"
        /\ movements[a] > 0
        /\ heuristic(pos[a], t) = 2

\* C10: a move to an in-bounds cell that is no obstacle, with battery >= MOVE_COST,
\* succeeds whatever the other agents do: every agent stands on the cell its
\* latest step called move with, so two agents moving to one cell in one tick
\* both end the tick on it.
C10_NoCollisionRejection ==
    \A a \in Roombas :
        (last[a].target # None /\ last[a].battery >= MOVE_COST) =>
            pos[a] = last[a].target

\* a tick has just ended in which two agents moved to the same cell
C10_Witness ==
    \E a, b \in Roombas :
        /\ a # b
        /\ pending = Roombas
        /\ current_time >= 1
        /\ last[a].target # None
        /\ last[a].target = last[b].target
        /\ last[a].from # last[b].from
        /\ pos[a] = last[a].target
        /\ pos[b] = last[a].target

\* the agent whose Roomba.step a transition runs: it leaves pending, or it was
\* the tick's last and pending is refilled
Stepped(a) == a \in pending /\ (pending = {a} \/ a \notin pending')

\* C11: an agent that starts its tick on its home charger with battery < 90 only
\* charges in that tick: battery becomes min(100, battery + 10) while its
\* position, its movement count and every cell state stay as they were, whatever
\* dirt it remembers and whatever frontier it has; so it stays on the charger
\* tick after tick until its battery is at least 90.
C11_ChargeOnly ==
    [][\A a \in Roombas :
           (Stepped(a) /\ pos[a] = home_charger[a] /\ battery[a] < BATTERY_SAFE) =>
               /\ battery'[a] = Min(BATTERY_FULL, battery[a] + CHARGE_RATE)
               /\ pos'[a] = pos[a]
               /\ movements'[a] = movements[a]
               /\ cells' = cells
               /\ (battery'[a] < BATTERY_SAFE => pos'[a] = home_charger[a])]_vars

\* an agent has just charged although it remembers a cell that is still dirty and
\* has a frontier to explore
C11_Witness ==
    \E a \in Roombas :
        /\ last[a].branch = "charge"
        /\ battery[a] = last[a].battery + CHARGE_RATE
        /\ \E p \in dirty_cells_memory[a] : cells[p] = "dirty"
        /\ get_unexplored_frontier(View(a)) # {}

\* the return decision for a path cost c
ReturnDecision(a, c) ==
    \/ battery[a] <= BATTERY_CRITICAL[a]
    \/ battery[a] <= c + SAFETY_MARGIN + BATTERY_CRITICAL[a]

\* C12: should_return_to_charger is true exactly when battery <= CRITICAL_THRESHOLD
\* or battery <= pathCostToCharger + 15 + CRITICAL_THRESHOLD, pathCostToCharger
\* being the length of the obstacle-avoiding path to the home charger whenever the
\* charger can be reached, and the Manhattan distance only when it cannot.  (The
\* length of a path is taken either way: its number of moves or, as the code's
\* len(path), its number of cells.)
C12_ReturnDecision ==
    \A a \in Roombas :
        Activable(a) =>
            LET d == ShortestDist(cells, pos[a], home_charger[a])
                manhattan == heuristic(pos[a], home_charger[a])
                decided == should_return_to_charger(View(a))
            IN  IF d >= 0
                THEN \/ decided = ReturnDecision(a, d * MOVE_COST)
                     \/ decided = ReturnDecision(a, (d + 1) * MOVE_COST)
                ELSE decided = ReturnDecision(a, manhattan * MOVE_COST)

\* the targets move is tried with: every cell and the ring of positions around the grid
MoveTargets == (-1 .. width) \X (-1 .. height)

\* C14: move(target) returns False and changes nothing (position, battery, movement
\* count, knowledge sets, grid) when battery < MOVE_COST, the target is out of
\* bounds or the target is an obstacle; otherwise it returns True with position =
\* target, battery less by MOVE_COST, movement count more by 1, the grid as it
\* was and a sensing pass made at the new position.
C14_MoveContract ==
    \A a \in Roombas : \A t \in MoveTargets :
        LET s == View(a)
            r == move(s, t)
        IN  IF \/ battery[a] < MOVE_COST
               \/ ~is_valid_position(t)
               \/ cells[t] = "obstacle"
            THEN ~r.ok /\ r.s = s
            ELSE /\ r.ok
                 /\ r.s.ag.pos = t
                 /\ r.s.ag.battery = battery[a] - MOVE_COST
                 /\ r.s.ag.movements = movements[a] + 1
                 /\ r.s.grid = cells
                 /\ r.s = update_knowledge([s EXCEPT !.ag.pos = t,
                                                     !.ag.battery = @ - MOVE_COST,
                                                     !.ag.movements = @ + 1])
                 /\ t \in r.s.ag.visited_cells
                 /\ Neighbours(t) \subseteq r.s.ag.explored_cells

\* an agent that has moved stands with an obstacle and the grid's edge beside it
\* and a free cell to move to; and an agent stands with battery 0
C14_Witness ==
    /\ \E a \in Roombas :
           /\ movements[a] > 0
           /\ pos[a] = last[a].target
           /\ \E q \in Neighbours(pos[a]) : cells[q] = "obstacle"
           /\ \E q \in Neighbours(pos[a]) : cells[q] # "obstacle"
           /\ Cardinality(Neighbours(pos[a])) < 4
    /\ \E a \in Roombas : battery[a] < MOVE_COST

\* C15: clean_current_cell returns False and changes nothing when battery is below
\* CLEAN_COST (2) or the agent's cell is not dirty; otherwise it sets the cell to
\* clean and takes exactly CLEAN_COST from the battery.
C15_CleanCost ==
    \A a \in Roombas :
        LET s == View(a)
            r == clean_current_cell(s)
        IN  IF battery[a] < CLEAN_COST \/ cells[pos[a]] # "dirty"
            THEN ~r.ok /\ r.s = s
            ELSE /\ r.ok
                 /\ r.s.grid[pos[a]] = "clean"
                 /\ r.s.ag.battery = battery[a] - CLEAN_COST

\* C16: the only change a step makes to a cell is dirty -> clean, made by an agent
\* standing on that cell: obstacles and charging stations stay what they are, no
\* cell becomes dirty and the number of dirty cells never grows.
C16_CellFrame ==
    [][\A p \in AllCells :
           cells'[p] # cells[p] =>
               /\ cells[p] = "dirty"
               /\ cells'[p] = "clean"
               /\ \E a \in Roombas : Stepped(a) /\ pos[a] = p /\ pos'[a] = p]_vars

\* an agent has cleaned the cell it stands on, next to an obstacle, while a dirty
\* cell remains elsewhere
C16_Witness ==
    \E a \in Roombas :
        /\ last[a].branch = "clean"
        /\ cells[pos[a]] = "clean"
        /\ battery[a] = last[a].battery - 1
        /\ \E q \in Neighbours(pos[a]) : cells[q] = "obstacle"
        /\ \E q \in AllCells : cells[q] = "dirty"

\* the legal moves from p: in bounds and no obstacle
LegalMoves(p) == {q \in Neighbours(p) : cells[q] # "obstacle"}

\* C20: in a tick in which the return decision is true, the agent does not charge,
\* battery >= 1 and no step of a planned path is taken, the agent moves to a legal
\* adjacent cell whose Manhattan distance to the home charger is least among its
\* legal adjacent cells, and does nothing else (the move's cost is all it spends).
C20_EmergencyFallback ==
    \A a \in Roombas :
        (/\ last[a].ret
         /\ last[a].branch \notin {"none", "charge", "return_path"}
         /\ last[a].battery >= MOVE_COST) =>
            /\ last[a].branch = "return_emergency"
            /\ pos[a] \in LegalMoves(last[a].from)
            /\ \A q \in LegalMoves(last[a].from) :
                   heuristic(pos[a], home_charger[a]) <= heuristic(q, home_charger[a])
            /\ battery[a] = last[a].battery - MOVE_COST

\* an agent has made an emergency move with two legal cells at different
\* distances from the charger to choose from
C20_Witness ==
    \E a \in Roombas :
        /\ last[a].branch = "return_emergency"
        /\ \E q, r \in LegalMoves(last[a].from) :
               heuristic(q, home_charger[a]) < heuristic(r, home_charger[a])

\* C13: every RoomModel.step activates each Roomba exactly once, one agent's step
\* at a time, then adds 1 to current_time; running is false after every step that
\* leaves current_time >= max_time and never becomes true again; the runner's loop
\* (step while current_time < max_time and running) goes on exactly while
\* current_time < max_time, so it ends after exactly max_time steps.
C13_TickSchedule ==
    /\ [](\A a \in Roombas :
              activations[a] = current_time + (IF a \in pending THEN 0 ELSE 1))
    /\ [](pending # {} /\ pending \subseteq Roombas)
    /\ [](current_time <= max_time /\ (running <=> current_time < max_time))
    /\ [][/\ Cardinality({a \in Roombas : activations'[a] # activations[a]}) = 1
          /\ current_time' \in {current_time, current_time + 1}
          /\ (current_time' = current_time + 1) <=> (pending' = Roombas)
          /\ (~running) => (~running')]_vars

\* a run of two agents has ended: max_time ticks, each agent activated max_time times
C13_Witness ==
    /\ Cardinality(Roombas) = 2
    /\ ~running
    /\ current_time = max_time
    /\ \A a \in Roombas : activations[a] = max_time /\ last[a].branch # "none"

\* C17: a RoomModel whose dirty_percent + obstacle_percent exceeds 1 is rejected
\* when it is constructed: no model with a populated grid and agents comes of it.
C17_ConfigRejected ==
    dirty_percent + obstacle_percent > 100 => (DOMAIN cells = {} /\ Roombas = {})

ChargingStations == {p \in AllCells : cells[p] = "charging_station"}

\* C18: after construction with n_agents = n there are exactly n agents and exactly
\* n charging stations; each agent has battery 100 and stands on its home charger,
\* whose cell is a charging station; different agents have different home
\* chargers; for n = 1 the charger is (1,1); and through the run every agent's
\* home charger stays the same and its cell stays a charging station.
C18_Construction ==
    /\ [](/\ Cardinality(Roombas) = n_agents
          /\ Cardinality(ChargingStations) = n_agents
          /\ \A a \in Roombas :
                 /\ cells[home_charger[a]] = "charging_station"
                 /\ activations[a] = 0 =>
                        battery[a] = BATTERY_FULL /\ pos[a] = home_charger[a]
          /\ \A a, b \in Roombas : a # b => home_charger[a] # home_charger[b]
          /\ n_agents = 1 => \A a \in Roombas : home_charger[a] = <<1, 1>>)
    /\ [][home_charger' = home_charger /\ n_agents' = n_agents]_vars

\* the world positions agent a has classified so far: the cells it stood on, their
\* in-bounds neighbours, and the positions beyond the edge next to cells it stood on
SensedPositions(a) ==
    visited_cells[a] \cup explored_cells[a]
        \cup {<<p[1] + Deltas[n][1], p[2] + Deltas[n][2]>> :
                 p \in visited_cells[a], n \in 1 .. 4}

\* the store of agent a read as indexed by world position, world position p being
\* kept at index p + o: every classified position has an entry, which tells what
\* kind of cell it is (a cell that was clean or dirty reads EMPTY or DIRTY), and
\* every other entry is UNKNOWN
IndexedByWorld(a, o) ==
    LET m == knowledge_matrix[a].at
        index(p) == <<p[1] + o[1], p[2] + o[2]>>
        world(i) == <<i[1] - o[1], i[2] - o[2]>>
    IN  /\ \A p \in SensedPositions(a) :
               /\ index(p) \in DOMAIN m
               /\ IF Classification(cells, p) \in {EMPTY, DIRTY}
                  THEN m[index(p)] \in {EMPTY, DIRTY}
                  ELSE m[index(p)] = Classification(cells, p)
        /\ \A i \in DOMAIN m :
               world(i) \notin SensedPositions(a) => m[i] = UNKNOWN

\* C19: the knowledge store is indexed by world position: a classification once
\* recorded for a world position stays (no expansion of the window and no sensing
\* of other positions discards or overwrites it) until that position is sensed
\* again, and a position reads UNKNOWN only if it was never sensed.  (Whatever
\* index the store keeps a world position at: some shift o of the world onto the
\* matrix makes the store read so.)
C19_KnowledgeByWorldPosition ==
    \A a \in Roombas :
        \E o \in {<<i[1] - p[1], i[2] - p[2]>> :
                     i \in DOMAIN knowledge_matrix[a].at,
                     p \in {pos[a]} \cup SensedPositions(a)} :
            IndexedByWorld(a, o)

\* C21: the threshold relaxation makes return-seeking give up: an agent whose
\* BATTERY_CRITICAL was raised on stuck ticks has had, by the end of the run, a
\* tick after a raise in which its return decision was false (an agent with two
\* raises has had at least one tick after its first raise)
C21_RelaxationGivesUp ==
    \A a \in Roombas :
        (~running /\ BATTERY_CRITICAL[a] >= BATTERY_CRITICAL_INIT + 2 * THRESHOLD_RELAXATION)
            => last[a].gave_up

\* C22: in a tick where the agent does not charge, does not take the return
\* branch and stands on a cell that is not dirty, with battery >= 1 and a
\* non-empty dirty_cells_memory whose Manhattan-nearest positions are reachable
\* through non-obstacle cells, the agent moves one step along a shortest path:
\* its shortest-path distance to a nearest remembered dirty cell decreases by 1
C22_PursueDirt ==
    [][\A a \in Roombas :
        \A s \in {update_knowledge(View(a))} :
            \A near \in {Nearest(s.ag.dirty_cells_memory, pos[a])} :
                (/\ Stepped(a)
                 /\ ~(pos[a] = home_charger[a] /\ battery[a] < BATTERY_SAFE)
                 /\ ~should_return_to_charger(s)
                 /\ cells[pos[a]] # "dirty"
                 /\ battery[a] >= 1
                 /\ near # {}
                 /\ \A t \in near : ShortestDist(cells, pos[a], t) >= 0)
                => (\E t \in near :
                        ShortestDist(cells', pos'[a], t) =
                            ShortestDist(cells, pos[a], t) - 1)]_vars

\* C23: after every sensing pass visited_cells is a subset of explored_cells
\* (every cell the agent has occupied, its current cell and its starting cell on
\* the first tick included, is explored), and so the agent's own position is
\* not in the frontier that get_unexplored_frontier returns
C23_VisitedExplored ==
    \A a \in Roombas :
        Activable(a) =>
            \A s \in {update_knowledge(View(a))} :
                /\ s.ag.visited_cells \subseteq s.ag.explored_cells
                /\ s.ag.pos \notin get_unexplored_frontier(s)

\* C24: in one tick an agent performs at most one state-changing action: at
\* most one of a successful move, a successful clean and a successful charge
\* happens, so across one Roomba.step the position changes by at most one
\* 4-neighbour step, the movement count by at most 1, at most one cell changes
\* state, and the battery changes by -1, by 0 or by an increase of at most 10
C24_OneActionPerTick ==
    [][\A a \in Roombas :
        Stepped(a) =>
            \A moved \in {pos'[a] # pos[a]} :
            \A cleaned \in {cells' # cells} :
            \A charged \in {battery'[a] > battery[a]} :
                /\ ~(moved /\ cleaned)
                /\ ~(moved /\ charged)
                /\ ~(cleaned /\ charged)
                /\ (moved => (pos'[a] \in Neighbours(pos[a])))
                /\ (movements'[a] = IF moved THEN movements[a] + 1 ELSE movements[a])
                /\ Cardinality({p \in AllCells : cells'[p] # cells[p]}) <= 1
                /\ (battery'[a] - battery[a] \in {-MOVE_COST} \cup (0 .. CHARGE_RATE))]_vars

\* an agent moved onto a dirty cell and ended its tick there without cleaning it
C24_Witness ==
    \E a \in Roombas :
        /\ last[a].branch = "dirt"
        /\ pos[a] # last[a].from
        /\ cells[pos[a]] = "dirty"
        /\ battery[a] = last[a].battery - MOVE_COST

\* C25: after construction with dirty_percent + obstacle_percent <= 1 the number
\* of dirty cells is floor(dirty_percent * width * height), the number of
\* obstacle cells is floor(obstacle_percent * width * height), and no dirty or
\* obstacle cell coincides with a charging station
C25_ConstructionCounts ==
    (/\ current_time = 0
     /\ \A a \in Roombas : activations[a] = 0
     /\ dirty_percent + obstacle_percent <= 100)
    => /\ Cardinality({p \in AllCells : cells[p] = "dirty"}) =
              (dirty_percent * width * height) \div 100
       /\ Cardinality({p \in AllCells : cells[p] = "obstacle"}) =
              (obstacle_percent * width * height) \div 100
       /\ \A a \in Roombas : cells[home_charger[a]] \notin {"dirty", "obstacle"}

\* C26: agents act one after another within a tick, so each dirty -> clean
\* transition is made by exactly one agent, the one being activated, which
\* stands on the cell and pays battery for it; an agent activated on a cell
\* that is not dirty (another agent has cleaned it earlier in the tick) changes
\* no cell and pays nothing for the failed clean: its battery falls only by the
\* cost of the move of the lower-priority branch it falls through to
C26_OneCleanerPerCell ==
    [][\A a \in Roombas :
        Stepped(a) =>
            /\ \A p \in AllCells :
                   (cells[p] = "dirty" /\ cells'[p] = "clean")
                   => (p = pos[a] /\ pos'[a] = p /\ battery'[a] = battery[a] - 1)
            /\ \A b \in Roombas \ {a} : battery'[b] = battery[b]
            /\ (cells[pos[a]] # "dirty")
               => (/\ cells' = cells
                   /\ battery'[a] - battery[a] >=
                          IF pos'[a] # pos[a] THEN -MOVE_COST ELSE 0)]_vars

\* two agents began the same tick on the same dirty cell: one cleaned it, the
\* other, activated later, took a lower-priority branch
C26_Witness ==
    \E a, b \in Roombas :
        /\ a # b
        /\ pending = Roombas
        /\ activations[a] = activations[b]
        /\ last[a].branch = "clean"
        /\ last[b].from = last[a].from
        /\ last[b].branch \in {"dirt", "explore", "random", "idle"}
        /\ battery[a] = last[a].battery - 1
        /\ battery[b] >= last[b].battery - MOVE_COST

\* C27: on an obstacle-free grid no agent strands: every agent's battery stays
\* >= 1, and an agent whose return decision became true d0 cells (Manhattan)
\* from its charger charges there within d0 + 1 ticks: the tick that charges is
\* tick d0 + 1 of the episode at the latest
C27_NoStranding ==
    ObstacleFree =>
        \A a \in Roombas :
            /\ battery[a] >= 1
            /\ (last[a].since >= 1) =>
                   (/\ last[a].since <= last[a].d0 + 1
                    /\ (last[a].since = last[a].d0 + 1) => (last[a].branch = "charge"))

\* an agent that decided to return two cells from its charger has charged
C27_Witness ==
    /\ ObstacleFree
    /\ \E a \in Roombas :
           /\ last[a].d0 = 2
           /\ last[a].since = 3
           /\ last[a].branch = "charge"
           /\ pos[a] = home_charger[a]
           /\ battery[a] = last[a].battery + CHARGE_RATE

\* an agent with battery 0 off its home charger
Stranded(a) == battery[a] = 0 /\ pos[a] # home_charger[a]

C29_ChargeAtHomeOnly ==
    [][\A a \in Roombas :
        /\ (battery'[a] > battery[a])
           => (Stepped(a) /\ pos[a] = home_charger[a] /\ battery[a] < BATTERY_SAFE)
        /\ (cells[pos[a]] = "charging_station" /\ pos[a] # home_charger[a])
           => (battery'[a] <= battery[a])]_vars

\* an agent began a tick on another agent's charger with battery < 90 and ended
\* the tick with no more battery than it had
C29_Witness ==
    \E a, b \in Roombas :
        /\ a # b
        /\ last[a].branch # "none"
        /\ last[a].from = home_charger[b]
        /\ last[a].from # home_charger[a]
        /\ last[a].battery < BATTERY_SAFE
        /\ battery[a] <= last[a].battery

====
